---- MODULE Spec2Model ----
(***************************************************************************)
(* Model of Music_Tui (src/src/main.rs): the App object (directory         *)
(* listing, cursor, rodio sink, playback state) and the run_app loop that  *)
(* drives it: end-of-track check, draw, poll for one key event.            *)
(*                                                                         *)
(* Paths are sequences of component names; names are integers so that the  *)
(* lexicographic order PathBuf's Ord uses is the order on integers.        *)
(* Option<T> is a sequence of length 0 (None) or 1 (Some(x)).              *)
(* Indices are 0-based as in the code: files[i] is a.files[i + 1] here.    *)
(***************************************************************************)
EXTENDS Integers, Sequences, FiniteSets, TLC

\* Number of audio tracks in the music directory of the modelled filesystem.
NumTracks == 3

None == <<>>
Some(x) == <<x>>
IsSome(o) == Len(o) = 1
Unwrap(o) == o[1]

(***************************************************************************)
(* The filesystem the session browses (the OS services the code calls).    *)
(*   <<>>            the root, whose parent() is None                      *)
(*   <<1>>           a directory that can be traversed but not listed      *)
(*   <<InvalidName>> a directory whose name is not valid UTF-8             *)
(*   <<1,1>>         the music directory the session starts in             *)
(*   <<1,1,1>>       a sub-directory holding a .txt and a .wav file and a  *)
(*                   directory whose name sorts after both files           *)
(*   <<1,1,2>>       an empty sub-directory named like a track (x.mp3/)    *)
(*   <<1,1,2+k>>     track k, k \in 1..NumTracks; track 2 is corrupt       *)
(***************************************************************************)
InvalidName == 9
ReplacementName == 0

MusicDir == <<1, 1>>
SubDir == <<1, 1, 1>>
EmptyDir == <<1, 1, 2>>
Track(k) == <<1, 1, 2 + k>>
TxtFile == <<1, 1, 1, 1>>
WavFile == <<1, 1, 1, 2>>
NestedDir == <<1, 1, 1, 3>>

Tracks == { Track(k) : k \in 1..NumTracks }
Dirs == { <<>>, <<1>>, <<InvalidName>>, MusicDir, SubDir, EmptyDir, NestedDir }
AllPaths == Dirs \cup Tracks \cup { TxtFile, WavFile }

\* Path::is_dir / Path::is_file: false for a path that does not exist.
is_dir(p) == p \in Dirs
is_file(p) == p \in AllPaths /\ p \notin Dirs

\* Path::extension of the last component.
extension(p) ==
  IF p \in Tracks THEN (IF p[3] % 2 = 1 THEN "mp3" ELSE "flac")
  ELSE IF p = EmptyDir THEN "mp3"
  ELSE IF p = TxtFile THEN "txt"
  ELSE IF p = WavFile THEN "wav"
  ELSE ""

\* File::open(path) followed by Decoder::new(reader): Ok or Err.
DecodeOk(p) == is_file(p) /\ p # Track(2) /\ p # TxtFile

\* to_string_lossy().into_owned(): a component that is not valid UTF-8 comes
\* out with U+FFFD in place of the offending bytes, i.e. as another name.
to_string_lossy(p) ==
  [i \in 1..Len(p) |-> IF p[i] = InvalidName THEN ReplacementName ELSE p[i]]

\* PathBuf::from(&current_path).parent(): None at the root.
parent(p) == IF Len(p) = 0 THEN None ELSE Some(SubSeq(p, 1, Len(p) - 1))

\* Ord for PathBuf: component-wise lexicographic comparison.
RECURSIVE PathLess(_, _)
PathLess(a, b) ==
  IF Len(b) = 0 THEN FALSE
  ELSE IF Len(a) = 0 THEN TRUE
  ELSE IF a[1] # b[1] THEN a[1] < b[1]
  ELSE PathLess(Tail(a), Tail(b))

\* A set as a sequence, greatest path first: the order read_dir happens to
\* deliver the entries in (any order is possible; every caller re-orders).
RECURSIVE DirOrder(_)
DirOrder(S) ==
  IF S = {} THEN <<>>
  ELSE LET m == CHOOSE x \in S : \A y \in S \ {x} : PathLess(y, x)
       IN <<m>> \o DirOrder(S \ {m})

\* fs::read_dir(path)?.filter_map(Result::ok).map(|e| e.path()).collect():
\* None stands for the Err that `?` returns.
read_dir(p) ==
  IF p \in Dirs /\ p # <<1>>
  THEN Some(DirOrder({ q \in AllPaths : Len(q) = Len(p) + 1
                                        /\ SubSeq(q, 1, Len(p)) = p }))
  ELSE None


(***************************************************************************)
(* The App object as a record. sink is the rodio queue of loaded sources   *)
(* and sink_paused its pause flag; panicked records that a method          *)
(* unwound with a panic (index out of bounds, expect on an Err).           *)
(***************************************************************************)
Perms(S) ==
  { f \in [1..Cardinality(S) -> S] : \A x \in S : \E i \in 1..Cardinality(S) : f[i] = x }

Range(s) == { s[i] : i \in 1..Len(s) }

\* The comparator of sort_files: b.is_dir().cmp(&a.is_dir()).then_with(|| a.cmp(b)).
FileLess(x, y) ==
  IF is_dir(x) # is_dir(y) THEN is_dir(x) ELSE PathLess(x, y)

\* Mutant of the sort_files comparator: a.cmp(b) alone, directories not first.
sort_by_path_only(s) ==
  [i \in 1..Len(s) |->
     CHOOSE x \in Range(s) : Cardinality({ y \in Range(s) : PathLess(y, x) }) = i - 1]

\* Sorting a Vec of distinct entries (the children of one directory have
\* distinct paths) under a total order: the entry at position i is the one
\* with exactly i - 1 entries before it in the order.
\* self.files.sort_by(..) with the comparator of sort_files:
sort_by_kind_then_path(s) ==
  [i \in 1..Len(s) |->
     CHOOSE x \in Range(s) : Cardinality({ y \in Range(s) : FileLess(y, x) }) = i - 1]

\* dirs.sort() of shuffle_files: PathBuf's own order.
sort_paths(s) ==
  [i \in 1..Len(s) |->
     CHOOSE x \in Range(s) : Cardinality({ y \in Range(s) : PathLess(y, x) }) = i - 1]

sort_files(a) == [a EXCEPT !.files = sort_by_kind_then_path(a.files)]

\* Mutant of shuffle_files: shuffles the whole listing, directories included.
shuffle_files_all(a) ==
  { [a EXCEPT !.files = f] : f \in Perms(Range(a.files)) }

\* Every outcome of shuffle_files: one per permutation thread_rng can draw.
shuffle_files(a) ==
  LET dirs == sort_paths(SelectSeq(a.files, LAMBDA p : is_dir(p)))
      files == Range(SelectSeq(a.files, LAMBDA p : ~is_dir(p)))
  IN { [a EXCEPT !.files = dirs \o f] : f \in Perms(files) }

\* Mutant of update_files: replaces the listing and leaves the cursor alone.
update_files_keeps_cursor(a) ==
  LET listing == read_dir(a.current_path) IN
  IF ~IsSome(listing) THEN { [app |-> a, ok |-> FALSE] }
  ELSE LET listed == [a EXCEPT !.files = Unwrap(listing)]
           ordered == IF a.is_shuffling THEN shuffle_files(listed)
                      ELSE { sort_files(listed) }
       IN { [app |-> b, ok |-> TRUE] : b \in ordered }

\* Every outcome of update_files, each with the Result it returns.
update_files(a) ==
  LET listing == read_dir(a.current_path) IN
  IF ~IsSome(listing) THEN { [app |-> a, ok |-> FALSE] }
  ELSE LET listed == [a EXCEPT !.files = Unwrap(listing)]
           ordered == IF a.is_shuffling THEN shuffle_files(listed)
                      ELSE { sort_files(listed) }
       IN { [app |-> IF Len(b.files) # 0 THEN [b EXCEPT !.list_state = Some(0)]
                     ELSE b,
             ok |-> TRUE] : b \in ordered }

\* Mutant of play_music: loads the source but forgets self.state = Playing.
play_music_keeps_state(a, path) ==
  LET stopped == [a EXCEPT !.sink = <<>>] IN
  IF DecodeOk(path)
  THEN [stopped EXCEPT !.sink = <<path>>, !.currently_playing = Some(path)]
  ELSE stopped

\* Mutant of play_music: forgets self.sink.stop() and queues behind what is loaded.
play_music_appends(a, path) ==
  IF DecodeOk(path)
  THEN [a EXCEPT !.sink = a.sink \o <<path>>,
                 !.currently_playing = Some(path),
                 !.state = "Playing"]
  ELSE a

play_music(a, path) ==
  LET stopped == [a EXCEPT !.sink = <<>>] IN
  IF DecodeOk(path)
  THEN [stopped EXCEPT !.sink = <<path>>,
                       !.currently_playing = Some(path),
                       !.state = "Playing"]
  ELSE stopped

panic(a) == [a EXCEPT !.panicked = TRUE]

enter_directory(a) ==
  IF IsSome(a.list_state)
  THEN LET selected_index == Unwrap(a.list_state) IN
       IF selected_index >= Len(a.files) THEN { panic(a) }
       ELSE LET selected_path == a.files[selected_index + 1] IN
            IF is_dir(selected_path)
            THEN LET moved == [a EXCEPT !.current_path = to_string_lossy(selected_path)]
                 IN { IF r.ok THEN r.app ELSE panic(r.app) : r \in update_files(moved) }
            ELSE { play_music(a, selected_path) }
  ELSE { a }

\* Mutant of leave_directory: stops playback when the directory changes.
leave_directory_stops(a) ==
  LET up == parent(a.current_path) IN
  IF IsSome(up)
  THEN LET moved == [a EXCEPT !.current_path = to_string_lossy(Unwrap(up))]
       IN { [r.app EXCEPT !.sink = <<>>, !.currently_playing = None, !.state = "Normal"] :
              r \in update_files(moved) }
  ELSE { a }

leave_directory(a) ==
  LET up == parent(a.current_path) IN
  IF IsSome(up)
  THEN LET moved == [a EXCEPT !.current_path = to_string_lossy(Unwrap(up))]
       IN { r.app : r \in update_files(moved) }
  ELSE { a }

\* Mutant of pause_playback: pauses without testing the state.
pause_playback_unguarded(a) ==
  [a EXCEPT !.sink_paused = TRUE, !.state = "Paused"]

pause_playback(a) ==
  IF a.state = "Playing"
  THEN [a EXCEPT !.sink_paused = TRUE, !.state = "Paused"]
  ELSE a

resume_playback(a) ==
  IF a.state = "Paused"
  THEN [a EXCEPT !.sink_paused = FALSE, !.state = "Playing"]
  ELSE a

\* Mutant of stop_playback: forgets currently_playing = None.
stop_playback_keeps_track(a) ==
  [a EXCEPT !.sink = <<>>, !.state = "Normal"]

\* Mutant of stop_playback: forgets self.sink.stop().
stop_playback_keeps_sink(a) ==
  [a EXCEPT !.currently_playing = None, !.state = "Normal"]

stop_playback(a) ==
  [a EXCEPT !.sink = <<>>, !.currently_playing = None, !.state = "Normal"]

\* Mutant of select_next: wraps one step too late (i >= len instead of len - 1).
select_next_wraps_late(a) ==
  IF Len(a.files) = 0 THEN a
  ELSE LET i == IF IsSome(a.list_state)
                THEN (IF Unwrap(a.list_state) >= Len(a.files) THEN 0
                      ELSE Unwrap(a.list_state) + 1)
                ELSE 0
       IN [a EXCEPT !.list_state = Some(i)]

select_next(a) ==
  IF Len(a.files) = 0 THEN a
  ELSE LET i == IF IsSome(a.list_state)
                THEN (IF Unwrap(a.list_state) >= Len(a.files) - 1 THEN 0
                      ELSE Unwrap(a.list_state) + 1)
                ELSE 0
       IN [a EXCEPT !.list_state = Some(i)]

select_previous(a) ==
  IF Len(a.files) = 0 THEN a
  ELSE LET i == IF IsSome(a.list_state)
                THEN (IF Unwrap(a.list_state) = 0 THEN Len(a.files) - 1
                      ELSE Unwrap(a.list_state) - 1)
                ELSE 0
       IN [a EXCEPT !.list_state = Some(i)]

\* The predicate of play_next_song's find().
IsSong(p) == is_file(p) /\ extension(p) \in {"mp3", "flac"}

\* self.files.iter().position(|f| f == p), 0-based.
position(s, p) ==
  IF \E i \in 1..Len(s) : s[i] = p
  THEN Some((CHOOSE i \in 1..Len(s) : s[i] = p /\ \A j \in 1..(i - 1) : s[j] # p) - 1)
  ELSE None

\* iter().cycle().skip(start).take(len): len entries from 0-based index start.
CycleSkipTake(s, start) ==
  [k \in 1..Len(s) |-> s[((start + k - 1) % Len(s)) + 1]]

\* .find(|path| ...): the first entry that satisfies the predicate.
find_song(s) ==
  LET hits == SelectSeq(s, IsSong) IN
  IF Len(hits) = 0 THEN None ELSE Some(hits[1])

\* Mutant of next_song: starts the scan at the current track, not after it.
next_song_from_current(a) ==
  LET current_index == IF IsSome(a.currently_playing)
                       THEN position(a.files, Unwrap(a.currently_playing))
                       ELSE None
      start_index == IF IsSome(current_index) THEN Unwrap(current_index) ELSE 0
  IN find_song(CycleSkipTake(a.files, start_index))

next_song(a) ==
  LET current_index == IF IsSome(a.currently_playing)
                       THEN position(a.files, Unwrap(a.currently_playing))
                       ELSE None
      start_index == IF IsSome(current_index) THEN Unwrap(current_index) + 1 ELSE 0
  IN find_song(CycleSkipTake(a.files, start_index))

\* Mutant of play_next_song: returns without stopping when no song is found.
play_next_song_no_stop(a) ==
  IF Len(a.files) = 0 THEN stop_playback(a)
  ELSE IF IsSome(next_song(a)) THEN play_music(a, Unwrap(next_song(a)))
  ELSE a

play_next_song(a) ==
  IF Len(a.files) = 0 THEN stop_playback(a)
  ELSE IF IsSome(next_song(a)) THEN play_music(a, Unwrap(next_song(a)))
  ELSE stop_playback(a)

toggle_shuffle(a) ==
  LET flipped == [a EXCEPT !.is_shuffling = ~a.is_shuffling]
      ordered == IF flipped.is_shuffling THEN shuffle_files(flipped)
                 ELSE { sort_files(flipped) }
  IN { [b EXCEPT !.list_state = Some(0)] : b \in ordered }

\* List::render on the ListState: newer ratatui releases clear the selection of
\* an empty list and clamp an out-of-range one to the last item.
render_list(a) ==
  IF Len(a.files) = 0 THEN [a EXCEPT !.list_state = None]
  ELSE IF IsSome(a.list_state) /\ Unwrap(a.list_state) >= Len(a.files)
  THEN [a EXCEPT !.list_state = Some(Len(a.files) - 1)]
  ELSE a

(***************************************************************************)
(* The session: App's fields, the position of run_app's loop (pc), the key *)
(* read by the last poll, and whether the process is still running.        *)
(***************************************************************************)
VARIABLES current_path, files, list_state, sink, sink_paused,
          currently_playing, state, is_shuffling, pc, key, status

vars == <<current_path, files, list_state, sink, sink_paused,
          currently_playing, state, is_shuffling, pc, key, status>>

App == [current_path |-> current_path, files |-> files, list_state |-> list_state,
        sink |-> sink, sink_paused |-> sink_paused,
        currently_playing |-> currently_playing, state |-> state,
        is_shuffling |-> is_shuffling, panicked |-> FALSE]

\* The App literal of main before its first update_files.
NewApp == [current_path |-> to_string_lossy(MusicDir), files |-> <<>>,
           list_state |-> None, sink |-> <<>>, sink_paused |-> FALSE,
           currently_playing |-> None, state |-> "Normal",
           is_shuffling |-> FALSE, panicked |-> FALSE]

\* Write a method's outcome back; a panic ends the process.
Becomes(b) ==
  /\ current_path' = b.current_path
  /\ files' = b.files
  /\ list_state' = b.list_state
  /\ sink' = b.sink
  /\ sink_paused' = b.sink_paused
  /\ currently_playing' = b.currently_playing
  /\ state' = b.state
  /\ is_shuffling' = b.is_shuffling
  /\ status' = IF b.panicked THEN "panicked" ELSE status

\* main: app.update_files()? succeeded, then run_app starts its loop.
Init ==
  /\ \E r \in update_files(NewApp) :
       /\ r.ok
       /\ current_path = r.app.current_path
       /\ files = r.app.files
       /\ list_state = r.app.list_state
       /\ sink = r.app.sink
       /\ sink_paused = r.app.sink_paused
       /\ currently_playing = r.app.currently_playing
       /\ state = r.app.state
       /\ is_shuffling = r.app.is_shuffling
  /\ pc = "tick"
  /\ key = "none"
  /\ status = "running"

\* Top of the loop: the end-of-track check.
Tick ==
  /\ status = "running" /\ pc = "tick"
  /\ IF state = "Playing" /\ Len(sink) = 0
     THEN Becomes(play_next_song(App))
     ELSE Becomes(App)
  /\ pc' = "draw"
  /\ key' = key

\* terminal.draw: render_stateful_widget hands list_state to the List widget,
\* which leaves it alone or normalises it, depending on the ratatui release
\* and on whether the list area is empty.
Draw ==
  /\ status = "running" /\ pc = "draw"
  /\ \E b \in { App, render_list(App) } : Becomes(b)
  /\ pc' = "poll"
  /\ key' = key

\* event::poll timed out, or the event was not a key.
PollTimeout ==
  /\ status = "running" /\ pc = "poll"
  /\ Becomes(App)
  /\ pc' = "tick"
  /\ key' = "none"

Handled(k, outcomes) ==
  /\ status = "running" /\ pc = "poll"
  /\ \E b \in outcomes : Becomes(b)
  /\ pc' = "tick"
  /\ key' = k

KeyQuit ==
  /\ status = "running" /\ pc = "poll"
  /\ status' = "quit"
  /\ key' = "q"
  /\ UNCHANGED <<current_path, files, list_state, sink, sink_paused,
                 currently_playing, state, is_shuffling, pc>>

KeyToggleShuffle == Handled("d", toggle_shuffle(App))

KeyEsc == Handled("Esc", { stop_playback(App) })

KeySelectNext == Handled("j", { select_next(App) })

KeySelectPrevious == Handled("k", { select_previous(App) })

KeyLeave == Handled("h", leave_directory(App))

\* 'l' / Enter: every arm of the match on app.state calls enter_directory.
KeyActivate == Handled("l", enter_directory(App))

\* 's': pause_playback while Playing, resume_playback while Paused, else nothing.
KeyPauseResume ==
  Handled("s", { IF state = "Playing" THEN pause_playback(App)
                 ELSE IF state = "Paused" THEN resume_playback(App)
                 ELSE App })

\* Any key with no binding.
KeyOther == Handled("other", { App })

\* The audio thread reaches the end of the loaded source.
TrackEnd ==
  /\ status = "running"
  /\ Len(sink) > 0 /\ ~sink_paused
  /\ sink' = Tail(sink)
  /\ UNCHANGED <<current_path, files, list_state, sink_paused,
                 currently_playing, state, is_shuffling, pc, key, status>>

Next ==
  \/ Tick
  \/ Draw
  \/ PollTimeout
  \/ KeyQuit
  \/ KeyToggleShuffle
  \/ KeyEsc
  \/ KeySelectNext
  \/ KeySelectPrevious
  \/ KeyLeave
  \/ KeyActivate
  \/ KeyPauseResume
  \/ KeyOther
  \/ TrackEnd

Spec == Init /\ [][Next]_vars

\* The loop keeps turning and a loaded, unpaused track reaches its end.
FairSpec == Spec /\ WF_vars(Tick) /\ WF_vars(Draw) /\ WF_vars(PollTimeout) /\ WF_vars(TrackEnd)

TypeOK ==
  /\ current_path \in Seq(Int)
  /\ state \in {"Normal", "Playing", "Paused"}
  /\ pc \in {"tick", "draw", "poll"}
  /\ status \in {"running", "panicked", "quit"}
  /\ Len(list_state) <= 1 /\ Len(currently_playing) <= 1
  /\ sink_paused \in BOOLEAN /\ is_shuffling \in BOOLEAN


(***************************************************************************)
(* Vocabulary of the properties.                                           *)
(***************************************************************************)
\* The poll step that handled key k, and the end-of-track check step.
PollStep(k) == pc = "poll" /\ pc' = "tick" /\ key' = k
TickStep == pc = "tick" /\ pc' = "draw"

\* The cursor points into the listing; Selected is the entry under it.
HasSelection == IsSome(list_state) /\ Unwrap(list_state) < Len(files)
Selected == files[Unwrap(list_state) + 1]

NavUnchanged == UNCHANGED <<current_path, files, list_state, is_shuffling>>

\* The kind of an entry: Directory, AudioFile (a file with a recognised
\* extension) or OtherFile.
Kind(p) ==
  IF is_dir(p) THEN "Directory"
  ELSE IF extension(p) = "mp3" \/ extension(p) = "flac" THEN "AudioFile"
  ELSE "OtherFile"

\* The advance scan: 0-based index to start from, the entry met at offset k,
\* and the first AudioFile met within one pass, if any.
ScanStart ==
  IF IsSome(currently_playing) /\ \E i \in 1..Len(files) : files[i] = Unwrap(currently_playing)
  THEN CHOOSE i \in 1..Len(files) : files[i] = Unwrap(currently_playing)
  ELSE 0
ScanEntry(k) == files[((ScanStart + k) % Len(files)) + 1]
ScanHits == { k \in 0..(Len(files) - 1) : Kind(ScanEntry(k)) = "AudioFile" }
AdvanceTarget ==
  IF ScanHits = {} THEN None
  ELSE Some(ScanEntry(CHOOSE k \in ScanHits : \A j \in ScanHits : k <= j))

\* The end-of-track check is about to call play_next_song.
TrackEnded == state = "Playing" /\ Len(sink) = 0

(***************************************************************************)
(* C1: in every reachable state now_playing is set if and only if          *)
(* playback_state is not Idle (Normal), failed play attempts included.     *)
(***************************************************************************)
C1_NowPlayingIffNotIdle == IsSome(currently_playing) <=> state # "Normal"

\* Activate on the corrupt track failed while another track was playing.
C1_Witness ==
  /\ key = "l" /\ pc = "tick" /\ HasSelection /\ Selected = Track(2)
  /\ state = "Playing" /\ currently_playing = Some(Track(1)) /\ Len(sink) = 0

(***************************************************************************)
(* C2: in every reachable state selected_index is None when entries is     *)
(* empty and otherwise Some(i) with 0 <= i < len(entries).                 *)
(***************************************************************************)
C2_SelectedIndexInRange ==
  IF Len(files) = 0 THEN list_state = None
  ELSE IsSome(list_state) /\ 0 <= Unwrap(list_state) /\ Unwrap(list_state) < Len(files)

(***************************************************************************)
(* C3: once the track has ended while Playing and the entry advance picks  *)
(* cannot be decoded, the running session does not stay in that condition  *)
(* forever: it comes to play something, becomes Idle, or is taken out of   *)
(* it; it does not retry the failing entry on every tick without end.      *)
(***************************************************************************)
AdvanceTargetFails ==
  /\ status = "running" /\ TrackEnded /\ Len(files) > 0
  /\ IsSome(AdvanceTarget) /\ ~DecodeOk(Unwrap(AdvanceTarget))

C3_BadFileDoesNotBlockAdvance == AdvanceTargetFails ~> ~AdvanceTargetFails

(***************************************************************************)
(* C4: when play(path) fails, the controller is Idle (Normal) with         *)
(* now_playing = None afterwards, whatever state it was in before.         *)
(***************************************************************************)
ActivateFails ==
  PollStep("l") /\ HasSelection /\ ~is_dir(Selected) /\ ~DecodeOk(Selected)

C4_FailedPlayEndsIdle ==
  [][ActivateFails => state' = "Normal" /\ currently_playing' = None]_vars

(***************************************************************************)
(* C5: on end-of-track while Playing, advance takes the first AudioFile of *)
(* the cyclic scan of entries that starts right after now_playing's        *)
(* position (at 0 when now_playing is not listed) and visits each entry    *)
(* once: that entry is played if it decodes, and nothing else is played.   *)
(***************************************************************************)
C5_AdvancePlaysFirstAudioInCyclicScan ==
  [][(TickStep /\ TrackEnded /\ Len(files) > 0 /\ IsSome(AdvanceTarget)) =>
       IF DecodeOk(Unwrap(AdvanceTarget))
       THEN /\ currently_playing' = AdvanceTarget
            /\ sink' = <<Unwrap(AdvanceTarget)>>
            /\ state' = "Playing"
       ELSE /\ currently_playing' = currently_playing
            /\ sink' = <<>>]_vars

\* Track 3, the last entry, was activated and ended; the scan wrapped past
\* the directories at the front and track 1 is loaded.
C5_Witness ==
  /\ key = "l" /\ pc = "draw" /\ ~is_shuffling
  /\ HasSelection /\ Selected = Track(NumTracks) /\ Unwrap(list_state) = Len(files) - 1
  /\ currently_playing = Some(Track(1)) /\ sink = <<Track(1)>> /\ state = "Playing"

(***************************************************************************)
(* C6: with no AudioFile in entries (entries empty included) an            *)
(* end-of-track tick while Playing leaves the controller Idle with         *)
(* now_playing = None, and a tick while Idle changes nothing.              *)
(***************************************************************************)
C6_NoAudioAdvanceEndsIdle ==
  [][/\ (TickStep /\ TrackEnded /\ (Len(files) = 0 \/ AdvanceTarget = None)) =>
          (state' = "Normal" /\ currently_playing' = None /\ sink' = <<>>
           /\ NavUnchanged)
     /\ (TickStep /\ state = "Normal") =>
          UNCHANGED <<state, currently_playing, sink, sink_paused, current_path,
                      files, list_state, is_shuffling>>]_vars

\* The .wav file of the sub-directory, which lists no AudioFile, was
\* activated and ended; the tick left the controller Idle.
C6_Witness ==
  /\ key = "l" /\ pc = "draw" /\ HasSelection /\ Selected = WavFile
  /\ state = "Normal" /\ currently_playing = None /\ Len(sink) = 0

(***************************************************************************)
(* C7: activating a selected decodable file p, in Idle, Playing or Paused, *)
(* ends in Playing with now_playing = p, replacing what was loaded.        *)
(***************************************************************************)
C7_ActivateDecodableFilePlaysIt ==
  [][(PollStep("l") /\ HasSelection /\ ~is_dir(Selected) /\ DecodeOk(Selected)) =>
       /\ state' = "Playing"
       /\ currently_playing' = Some(Selected)
       /\ sink' = <<Selected>>]_vars

\* Track 3 was activated while track 1 was paused.
C7_Witness ==
  /\ key = "l" /\ pc = "tick" /\ HasSelection /\ Selected = Track(3)
  /\ state = "Playing" /\ currently_playing = Some(Track(3)) /\ sink_paused

(***************************************************************************)
(* C8: pause() acts only in Playing (to Paused) and resume() only in       *)
(* Paused (to Playing), neither touching now_playing or the navigation     *)
(* state; from any other state each changes nothing, and the pause/resume  *)
(* key in Idle has no effect.                                              *)
(***************************************************************************)
C8_PauseResumeOnlyWhereTheyApply ==
  /\ [](/\ state # "Playing" => pause_playback(App) = App
        /\ state # "Paused" => resume_playback(App) = App
        /\ state = "Playing" =>
             pause_playback(App) = [App EXCEPT !.state = "Paused", !.sink_paused = TRUE]
        /\ state = "Paused" =>
             resume_playback(App) = [App EXCEPT !.state = "Playing", !.sink_paused = FALSE])
  /\ [][PollStep("s") =>
          /\ state' = (IF state = "Playing" THEN "Paused"
                       ELSE IF state = "Paused" THEN "Playing" ELSE "Normal")
          /\ currently_playing' = currently_playing
          /\ sink' = sink
          /\ NavUnchanged
          /\ state = "Normal" => sink_paused' = sink_paused]_vars

\* The pause/resume key was pressed in Idle, with the output still paused
\* by an earlier pause().
C8_Witness ==
  /\ key = "s" /\ pc = "tick" /\ state = "Normal" /\ sink_paused

(***************************************************************************)
(* C9: stop() from Idle, Playing or Paused ends in Idle with now_playing   *)
(* = None and the output emptied; current_path, entries, selected_index    *)
(* and ordering_mode are unchanged.                                        *)
(***************************************************************************)
C9_StopEndsIdleAndKeepsNavigation ==
  [][PollStep("Esc") =>
       /\ state' = "Normal"
       /\ currently_playing' = None
       /\ sink' = <<>>
       /\ NavUnchanged]_vars

\* Esc was pressed with a track loaded and the output paused.
C9_Witness ==
  /\ key = "Esc" /\ pc = "tick" /\ state = "Normal" /\ sink_paused
  /\ currently_playing = None /\ Len(sink) = 0

(***************************************************************************)
(* C10: on non-empty entries, len(entries) calls of select_next() bring    *)
(* selected_index back to where it was, and so do len(entries) calls of    *)
(* select_previous(); select_next() then select_previous() is the          *)
(* identity; on empty entries both change nothing.                         *)
(***************************************************************************)
RECURSIVE NextTimes(_, _)
NextTimes(a, n) == IF n = 0 THEN a ELSE NextTimes(select_next(a), n - 1)

RECURSIVE PreviousTimes(_, _)
PreviousTimes(a, n) == IF n = 0 THEN a ELSE PreviousTimes(select_previous(a), n - 1)

C10_SelectionWrapsAround ==
  IF Len(files) = 0
  THEN select_next(App) = App /\ select_previous(App) = App
  ELSE /\ NextTimes(App, Len(files)).list_state = list_state
       /\ PreviousTimes(App, Len(files)).list_state = list_state
       /\ select_previous(select_next(App)).list_state = list_state

\* select_previous() at index 0 wrapped to the last entry.
C10_Witness ==
  /\ key = "k" /\ pc = "tick" /\ Len(files) >= 2
  /\ list_state = Some(Len(files) - 1)


(***************************************************************************)
(* Vocabulary of the ordering and navigation properties.                   *)
(***************************************************************************)
\* Every directory of s comes before every file of s.
DirectoriesFirst(s) ==
  \A i, j \in 1..Len(s) : (i < j /\ is_dir(s[j])) => is_dir(s[i])

\* The directories of s, and the files of s, are each in non-decreasing
\* lexicographic order.
GroupsAscending(s) ==
  \A i, j \in 1..Len(s) :
    (i < j /\ is_dir(s[i]) = is_dir(s[j])) => ~PathLess(s[j], s[i])

DirectoriesAscending(s) ==
  \A i, j \in 1..Len(s) :
    (i < j /\ is_dir(s[i]) /\ is_dir(s[j])) => ~PathLess(s[j], s[i])

\* t holds the same multiset of entries as s.
SameEntries(s, t) ==
  /\ Len(s) = Len(t)
  /\ \A i \in 1..Len(s) :
       Cardinality({ j \in 1..Len(s) : s[j] = s[i] }) = Cardinality({ j \in 1..Len(t) : t[j] = s[i] })

\* The entries of directory p, and s holding each of the set S once.
EntriesOf(p) == { q \in AllPaths : Len(q) = Len(p) + 1 /\ SubSeq(q, 1, Len(p)) = p }
HoldsEachOnce(s, S) == Len(s) = Cardinality(S) /\ Range(s) = S

\* The directory a leave step lists, and the one an Activate step lists.
ParentPath == SubSeq(current_path, 1, Len(current_path) - 1)
LeaveLists == Len(current_path) > 0 /\ IsSome(read_dir(to_string_lossy(ParentPath)))
LeaveListingFails == Len(current_path) > 0 /\ ~IsSome(read_dir(to_string_lossy(ParentPath)))
ActivateOnDirectory == HasSelection /\ is_dir(Selected)
ActivateLists == ActivateOnDirectory /\ IsSome(read_dir(to_string_lossy(Selected)))
ActivateListingFails == ActivateOnDirectory /\ ~IsSome(read_dir(to_string_lossy(Selected)))

(***************************************************************************)
(* C11: whenever ordering_mode is Sorted, entries has every directory      *)
(* before every file and each group in non-decreasing lexicographic order; *)
(* a toggle back to Sorted yields exactly that ordering of the same        *)
(* entries.                                                                *)
(***************************************************************************)
C11_SortedModeListingIsSorted ==
  /\ [](~is_shuffling => DirectoriesFirst(files) /\ GroupsAscending(files))
  /\ [][(PollStep("d") /\ is_shuffling) =>
          /\ ~is_shuffling'
          /\ SameEntries(files, files')
          /\ DirectoriesFirst(files') /\ GroupsAscending(files')]_vars

\* The sub-directory's listing after a toggle back to Sorted: the nested
\* directory leads although its name sorts after both files.
C11_Witness ==
  /\ key = "d" /\ pc = "tick" /\ ~is_shuffling
  /\ files = <<NestedDir, TxtFile, WavFile>>

(***************************************************************************)
(* C12: whenever ordering_mode is Shuffled, entries is a permutation of    *)
(* the Sorted ordering of the same listing: a toggle loses or duplicates   *)
(* nothing, a refresh yields exactly the listed entries, the directories   *)
(* form the same sorted prefix, and only the files after it may be in      *)
(* another order.                                                          *)
(***************************************************************************)
C12_ShuffledListingIsPermutation ==
  /\ [](is_shuffling =>
          /\ DirectoriesFirst(files) /\ DirectoriesAscending(files)
          /\ \A i, j \in 1..Len(files) : i # j => files[i] # files[j])
  /\ [][/\ PollStep("d") => SameEntries(files, files')
        /\ (is_shuffling /\ ((PollStep("h") /\ LeaveLists) \/ (PollStep("l") /\ ActivateLists))) =>
             HoldsEachOnce(files', EntriesOf(current_path'))]_vars

\* The music directory shuffled by a toggle, the first track now last.
C12_Witness ==
  /\ key = "d" /\ pc = "tick" /\ is_shuffling
  /\ Len(files) = NumTracks + 2 /\ files[Len(files)] = Track(1)
  /\ files[1] = SubDir /\ files[2] = EmptyDir

(***************************************************************************)
(* C13: every operation that replaces or re-orders the listing resets the  *)
(* cursor: after entering a directory or leaving to the parent, when the   *)
(* directory was listed and the listing is non-empty, and after a toggle   *)
(* of the ordering mode on a non-empty listing, selected_index = Some(0).  *)
(***************************************************************************)
C13_ListingChangeResetsCursor ==
  [][/\ ((PollStep("h") /\ LeaveLists) \/ (PollStep("l") /\ ActivateLists)) =>
          (Len(files') > 0 => list_state' = Some(0))
     /\ (PollStep("d") /\ Len(files) > 0) => list_state' = Some(0)]_vars

\* Back in the music directory after leaving the sub-directory, whose
\* listing is shorter, in Shuffled mode.
C13_Witness ==
  /\ key = "h" /\ pc = "tick" /\ current_path = MusicDir
  /\ list_state = Some(0) /\ Len(files) = NumTracks + 2 /\ is_shuffling


(***************************************************************************)
(* C14: a directory listing failure never terminates the session: when     *)
(* listing the target fails during Activate on a directory or during       *)
(* leave_to_parent, the session keeps running with the previous listing    *)
(* still in entries.                                                       *)
(***************************************************************************)
C14_ListingFailureKeepsSessionRunning ==
  [][((PollStep("l") /\ ActivateListingFails) \/ (PollStep("h") /\ LeaveListingFails)) =>
       (status' = "running" /\ files' = files)]_vars

(***************************************************************************)
(* C15: when the listing fails during leave_to_parent the operation        *)
(* changes nothing: current_path, entries and selected_index are as        *)
(* before, so current_path still names the directory listed in entries.    *)
(***************************************************************************)
C15_FailedLeaveChangesNothing ==
  [][(PollStep("h") /\ LeaveListingFails) =>
       UNCHANGED <<current_path, files, list_state>>]_vars

(***************************************************************************)
(* C16: navigation never disturbs playback: select_next, select_previous,  *)
(* entering a directory, leaving to the parent and toggling shuffle leave  *)
(* playback_state, now_playing and the loaded output as they were, in      *)
(* every playback state and also when the new listing does not hold the    *)
(* playing entry; entering and leaving leave ordering_mode as it was.      *)
(***************************************************************************)
C16_NavigationLeavesPlaybackAlone ==
  [][/\ (\/ PollStep("j") \/ PollStep("k") \/ PollStep("h") \/ PollStep("d")
         \/ (PollStep("l") /\ ActivateOnDirectory)) =>
          UNCHANGED <<state, currently_playing, sink, sink_paused>>
     /\ (PollStep("h") \/ (PollStep("l") /\ ActivateOnDirectory)) =>
          is_shuffling' = is_shuffling]_vars

\* The sub-directory was entered while track 1 of the music directory was
\* playing; track 1 is not in the new listing and is still playing.
C16_Witness ==
  /\ key = "l" /\ pc = "tick" /\ current_path = SubDir
  /\ Track(1) \notin Range(files) /\ Len(files) > 0
  /\ state = "Playing" /\ currently_playing = Some(Track(1)) /\ sink = <<Track(1)>>

(***************************************************************************)
(* C17: at most one track is ever loaded in the audio output: the queue    *)
(* holds zero or one source, stop() leaves it empty, and after play() it   *)
(* holds nothing but the new track.                                        *)
(***************************************************************************)
C17_AtMostOneTrackLoaded ==
  /\ [](Len(sink) <= 1)
  /\ [][/\ (PollStep("l") /\ HasSelection /\ ~is_dir(Selected)) =>
             (sink' = <<>> \/ sink' = <<Selected>>)
        /\ (TickStep /\ TrackEnded) =>
             (sink' = <<>> \/ sink' = <<Unwrap(currently_playing')>>)
        /\ PollStep("Esc") => sink' = <<>>]_vars

\* Auto-advance loaded track 3 after track 1 ended and the cursor had moved
\* on; the queue holds track 3 alone.
C17_Witness ==
  /\ pc = "draw" /\ key = "j" /\ ~is_shuffling
  /\ state = "Playing" /\ currently_playing = Some(Track(3)) /\ sink = <<Track(3)>>
  /\ HasSelection /\ Selected = Track(2)

(***************************************************************************)
(* C18: whenever playback_state is Playing the audio output is not paused; *)
(* in particular play(path) issued while Paused starts the output.         *)
(***************************************************************************)
C18_PlayingOutputNotPaused == state = "Playing" => ~sink_paused

(***************************************************************************)
(* C19: Activate never reads entries at an index outside 0..len(entries),  *)
(* in any reachable state, empty listings included.                        *)
(***************************************************************************)
C19_ActivateIndexInRange ==
  [][(PollStep("l") /\ IsSome(list_state)) => Unwrap(list_state) < Len(files)]_vars

====
